---- MODULE Spec2Model ----
(***************************************************************************)
(* Job queue of the AI NFT studio: the Job store (models/Job), the        *)
(* JobService singleton (processInitialBatch, continueBatchProcessing,    *)
(* processJob, approveJob, regenerateJob) and the job routes that call    *)
(* it.  Node runs one handler at a time and switches handlers only at an  *)
(* await, so every action below is the code that runs from the moment one *)
(* awaited promise resolves up to the next await; the awaited storage or  *)
(* file operation takes effect in the action in which it resolves.        *)
(***************************************************************************)
EXTENDS Integers, Sequences, FiniteSets, TLC

\* ---------------------------------------------------------------- bounds
\* jobs in the store, concurrent calls, retry_count ceiling, calls made in
\* one run, jobs per collection
NumJobs == 2
MaxCalls == 2
MaxRetry == 1
MaxRequests == 3
total_supply == 2
\* direct-image server: tiers of a plan, nftCount and editionsPerImage of a
\* tier, files uploaded for a tier, totalSupply of a request
MaxTiers == 2
MaxNftCount == 4
MaxEditions == 2
MaxImages == 2
MaxSupply == 6
\* shuffleArray: length of the array
MaxLength == 4
\* numbering: how far totalSupply lies from the first six-digit index
MaxOver == 3
\* collection routes: ids the collections table gives out, and the largest
\* supply a create request names as a number
MaxCollections == 3
MaxValue == 2

\* ------------------------------------------------------ program constants
initialBatchSize == 3
continueBatchSize == 100

Jobs == 1..NumJobs
Calls == 1..MaxCalls

NULL == "null"

\* aiService.generateImage: path.join(uploadsDir, `${jobId}.png`), one file per job id
imagePath == "uploads/jobId.png"
\* metadataService.saveMetadata: path.join(outputDir, `${jobId}.json`)
metadataPath == "output/jobId.json"
\* aiService.generateImage wraps every failure in this message
generateImageError == "Failed to generate image"

\* Job.createBatch: the jobs of one collection carry edition_number
\* 1..totalSupply.  The first total_supply job ids belong to collection 1,
\* the next total_supply to collection 2, ...
collection_id(j) == ((j - 1) \div total_supply) + 1
edition_number(j) == ((j - 1) % total_supply) + 1

\* the collections that own a job, and one collection without any job
Collections == 1..(collection_id(NumJobs) + 1)

Statuses == {"pending", "generating", "generated", "approved", "error"}

VARIABLES
    jobs,           \* the jobs table: status, image_path, metadata_path, error_message, retry_count
    imgFile,        \* imgFile[j]: uploads/<j>.png exists
    metaFile,       \* metaFile[j]: output/<j>.json exists
    isProcessing,   \* JobService.isProcessing
    pc,             \* where each call stands (the await it is waiting on)
    op,             \* which entry point the call came through
    coll,           \* collectionId argument of a batch call
    job,            \* the job the call is working on (job.id / jobId), 0 if none
    pendingJobs,    \* batch: pendingJobs not yet attempted; batch-regenerate: job_ids not yet handled
    processedJobs,  \* batch: processedJobs
    result,         \* how the call ended
    requests,       \* calls made so far
    env,            \* process.env as the JobService constructor read it
    req,            \* POST /api/generate: the request (data and uploaded files)
    tiers,          \* POST /api/generate: processedTiers, the tiers with their images
    jobQueue,       \* POST /api/generate: what createJobQueue returned
    finalQueue,     \* POST /api/generate: finalQueue
    zip,            \* POST /api/generate: the entries of the archive
    i,              \* POST /api/generate: the loop index
    res,            \* POST /api/generate: the response sent
    gpc,            \* POST /api/generate: where the handler stands
    collections,    \* the collections table: the row of each id given out so far, NULL once deleted
    rows,           \* the ids of the rows of the jobs table
    package,        \* the entries of the package createCollectionPackage wrote last
    mreq,           \* collection and job routes: the request being handled
    mres,           \* collection and job routes: the response sent
    mpc             \* collection and job routes: where the handler stands

\* the state of the direct-image server (src/backend/server.js)
generate == <<req, tiers, jobQueue, finalQueue, zip, i, res, gpc>>

\* the collections table, the rows of the jobs table, the package, and the
\* handler of the collection and job routes that change them
manage == <<collections, rows, package, mreq, mres, mpc>>

vars == <<jobs, imgFile, metaFile, isProcessing, pc, op, coll, job, pendingJobs,
          processedJobs, result, requests, env, generate, manage>>

store == <<jobs, imgFile, metaFile>>

\* the state of the AI studio: the store, the JobService and its calls
studio == <<store, isProcessing, pc, op, coll, job, pendingJobs, processedJobs,
            result, requests, env, manage>>

\* new Job({...}): status 'pending', retry_count 0, no paths, no error
NewJob ==
    [status |-> "pending", image_path |-> NULL, metadata_path |-> NULL,
     error_message |-> NULL, retry_count |-> 0]

\* the row of a collection whose jobs Job.createBatch made: total_supply jobs
StoredCollection ==
    [total_supply |-> total_supply, drop_supply |-> total_supply, status |-> "created"]

\* process.env of a deployment that sets neither batch size
DefaultEnv == [INITIAL_BATCH_SIZE |-> NULL, CONTINUE_BATCH_SIZE |-> NULL]

\* the AI studio after construction: the jobs Job.createBatch inserted, and
\* new JobService() under process.env e
StudioInit(e) ==
    /\ jobs = [j \in Jobs |-> NewJob]
    /\ imgFile = [j \in Jobs |-> FALSE]
    /\ metaFile = [j \in Jobs |-> FALSE]
    /\ isProcessing = FALSE
    /\ pc = [t \in Calls |-> "idle"]
    /\ op = [t \in Calls |-> "none"]
    /\ coll = [t \in Calls |-> 0]
    /\ job = [t \in Calls |-> 0]
    /\ pendingJobs = [t \in Calls |-> <<>>]
    /\ processedJobs = [t \in Calls |-> <<>>]
    /\ result = [t \in Calls |-> "none"]
    /\ requests = 0
    /\ env = e
    /\ collections = [c \in Collections |-> StoredCollection]
    /\ rows = Jobs
    /\ package = <<>>
    /\ mreq = [route |-> "none"]
    /\ mres = [status |-> 0]
    /\ mpc = "idle"

\* no request received, nothing sent
NoRequest ==
    [rarityTiers |-> <<>>, totalSupply |-> 0,
     advancedOptions |-> [randomizeOrder |-> FALSE], files |-> <<>>]
NoResponse == [status |-> 0]

\* the direct-image server listening, no request received
ServerInit ==
    /\ req = NoRequest
    /\ tiers = <<>>
    /\ jobQueue = <<>>
    /\ finalQueue = <<>>
    /\ zip = {}
    /\ i = 0
    /\ res = NoResponse
    /\ gpc = "listening"

Init == StudioInit(DefaultEnv) /\ ServerInit

\* ------------------------------------------------------------- Job model

\* Job.findById(id): SELECT * FROM jobs WHERE id = ?
findById(id) == jobs[id]

\* ORDER BY edition_number ASC over a set of job ids
RECURSIVE OrderByEdition(_)
OrderByEdition(S) ==
    IF S = {} THEN <<>>
    ELSE LET first == CHOOSE j \in S : \A k \in S : edition_number(j) <= edition_number(k)
         IN  <<first>> \o OrderByEdition(S \ {first})

\* LIMIT ?
Limit(s, limit) == SubSeq(s, 1, IF Len(s) < limit THEN Len(s) ELSE limit)

\* the query without its LIMIT clause
findByCollectionIdUnlimited(collectionId, status, limit) ==
    OrderByEdition({j \in rows : /\ collection_id(j) = collectionId
                                 /\ jobs[j].status = status})

\* Job.findByCollectionId(collectionId, status, limit)
findByCollectionId(collectionId, status, limit) ==
    Limit(OrderByEdition({j \in rows : /\ collection_id(j) = collectionId
                                       /\ jobs[j].status = status}),
          limit)

\* Job.updateStatus(id, status, additionalData): one UPDATE that sets status
\* and every key of additionalData together
updateStatus(id, status, additionalData) ==
    [jobs EXCEPT ![id] =
        [f \in DOMAIN jobs[id] |->
            IF f = "status" THEN status
            ELSE IF f \in DOMAIN additionalData THEN additionalData[f]
            ELSE jobs[id][f]]]

NoData == [x \in {} |-> NULL]

\* Job.incrementRetryCount(id): retry_count = retry_count + 1
incrementRetryCount(id) ==
    [jobs EXCEPT ![id].retry_count = @ + 1]

\* ------------------------------------------------------ call bookkeeping

BatchOps == {"processInitialBatch", "continueBatchProcessing"}
RegenerateOps == {"regenerateRoute", "regenerateJob", "batchRegenerate"}

\* no call is under way in slot t
Free(t) == pc[t] = "idle"

\* the call returns or throws to its caller with outcome r
Return(t, r) ==
    /\ pc' = [pc EXCEPT ![t] = "done"]
    /\ result' = [result EXCEPT ![t] = r]
    /\ job' = [job EXCEPT ![t] = 0]
    /\ coll' = [coll EXCEPT ![t] = 0]
    /\ pendingJobs' = [pendingJobs EXCEPT ![t] = <<>>]

\* a fresh call through entry point o
Enter(t, o) ==
    /\ Free(t)
    /\ requests < MaxRequests
    /\ requests' = requests + 1
    /\ op' = [op EXCEPT ![t] = o]
    /\ UNCHANGED <<processedJobs, env, generate, manage>>

\* the caller has taken the outcome of the call (the promise has settled,
\* the route has sent its response); the slot is free again
Respond(t) ==
    /\ pc[t] = "done"
    /\ pc' = [pc EXCEPT ![t] = "idle"]
    /\ op' = [op EXCEPT ![t] = "none"]
    /\ result' = [result EXCEPT ![t] = "none"]
    /\ processedJobs' = [processedJobs EXCEPT ![t] = <<>>]
    /\ UNCHANGED <<store, isProcessing, coll, job, pendingJobs, requests, env, generate,
                   manage>>

\* parseInt of the decimal strings a deployment sets a batch size to
parseInt == ("0" :> 0) @@ ("1" :> 1)

\* parseInt(process.env.X) || d: an unset variable parses to NaN, and NaN
\* and 0 are falsy
OrDefault(value, d) ==
    IF value = NULL THEN d
    ELSE IF parseInt[value] = 0 THEN d ELSE parseInt[value]

\* the batch size of the two batch entry points: this.initialBatchSize and
\* this.continueBatchSize as the constructor set them
batchSize(o) ==
    IF o = "processInitialBatch"
    THEN OrDefault(env.INITIAL_BATCH_SIZE, initialBatchSize)
    ELSE OrDefault(env.CONTINUE_BATCH_SIZE, continueBatchSize)

\* ------------------------------------------- JobService: batch processing

\* processInitialBatch / continueBatchProcessing up to the first await:
\* the isProcessing test, and the catch block that runs when the test throws
StartBatch(t, o, collectionId) ==
    /\ Enter(t, o)
    /\ IF isProcessing
       THEN \* throw new Error('Job processing already in progress'); the
            \* catch block of the same function then clears the flag
            /\ isProcessing' = FALSE
            /\ Return(t, "already_in_progress")
       ELSE /\ isProcessing' = TRUE
            /\ pc' = [pc EXCEPT ![t] = "findPending"]
            /\ coll' = [coll EXCEPT ![t] = collectionId]
            /\ job' = [job EXCEPT ![t] = 0]
            /\ pendingJobs' = [pendingJobs EXCEPT ![t] = <<>>]
            /\ result' = [result EXCEPT ![t] = "none"]
    /\ UNCHANGED store

processInitialBatch(t) ==
    \E collectionId \in Collections : StartBatch(t, "processInitialBatch", collectionId)

continueBatchProcessing(t) ==
    \E collectionId \in Collections : StartBatch(t, "continueBatchProcessing", collectionId)

\* the end of the for loop, or its next iteration up to the first await of processJob
NextJob(t, rest) ==
    IF rest = <<>>
    THEN /\ isProcessing' = FALSE
         /\ Return(t, "ok")
    ELSE /\ job' = [job EXCEPT ![t] = Head(rest)]
         /\ pendingJobs' = [pendingJobs EXCEPT ![t] = Tail(rest)]
         /\ pc' = [pc EXCEPT ![t] = "setGenerating"]
         /\ UNCHANGED <<isProcessing, coll, result>>

\* await Job.findByCollectionId(collectionId, 'pending', batchSize) resolves
FindPending(t) ==
    /\ pc[t] = "findPending"
    /\ UNCHANGED <<requests, env, generate, manage>>
    /\ LET found == findByCollectionId(coll[t], "pending", batchSize(op[t]))
       IN  IF found = <<>>
           THEN IF op[t] = "processInitialBatch"
                THEN \* throw new Error('No pending jobs found'), then the catch block
                     /\ isProcessing' = FALSE
                     /\ Return(t, "no_pending")
                ELSE \* return []
                     /\ isProcessing' = FALSE
                     /\ Return(t, "ok")
           ELSE /\ job' = [job EXCEPT ![t] = Head(found)]
                /\ pendingJobs' = [pendingJobs EXCEPT ![t] = Tail(found)]
                /\ pc' = [pc EXCEPT ![t] = "setGenerating"]
                /\ coll' = [coll EXCEPT ![t] = 0]
                /\ UNCHANGED <<isProcessing, result>>
    /\ UNCHANGED <<store, op, processedJobs>>

\* --------------------------------------------------- JobService.processJob

\* await Job.updateStatus(job.id, 'generating') resolves
SetGenerating(t) ==
    /\ pc[t] = "setGenerating"
    /\ UNCHANGED <<requests, env, generate, manage>>
    /\ jobs' = updateStatus(job[t], "generating", NoData)
    /\ pc' = [pc EXCEPT ![t] = "generateImage"]
    /\ UNCHANGED <<imgFile, metaFile, isProcessing, op, coll, job, pendingJobs,
                   processedJobs, result>>

\* await aiService.generateImage(job.ai_prompt, job.id) resolves: the image
\* file has been written
GenerateImageOk(t) ==
    /\ pc[t] = "generateImage"
    /\ UNCHANGED <<requests, env, generate, manage>>
    /\ imgFile' = [imgFile EXCEPT ![job[t]] = TRUE]
    /\ pc' = [pc EXCEPT ![t] = "setGenerated"]
    /\ UNCHANGED <<jobs, metaFile, isProcessing, op, coll, job, pendingJobs,
                   processedJobs, result>>

\* retry_count increments that are already on their way for job j
RetriesUnderway(j) ==
    Cardinality({u \in Calls : pc[u] \in {"setError", "incrementRetry"} /\ job[u] = j})

\* what a regenerate call does once regenerateJob has returned or thrown:
\* the single route and the direct call answer, batch-regenerate goes on
\* with the next job id
AfterRegenerate(t, r) ==
    IF op[t] = "batchRegenerate" /\ pendingJobs[t] # <<>>
    THEN /\ pc' = [pc EXCEPT ![t] = "regenerateCheck"]
         /\ job' = [job EXCEPT ![t] = 0]
         /\ UNCHANGED <<coll, pendingJobs, result>>
    ELSE Return(t, IF op[t] = "batchRegenerate" THEN "ok" ELSE r)

\* aiService.generateImage rejects.  processJob rethrows; in a batch the
\* catch of the for loop takes over, in regenerateJob the error is rethrown
\* to the caller
GenerateImageFail(t) ==
    /\ pc[t] = "generateImage"
    /\ UNCHANGED <<requests, env, generate, manage>>
    /\ IF op[t] \in BatchOps
       THEN /\ jobs[job[t]].retry_count + RetriesUnderway(job[t]) < MaxRetry
            /\ pc' = [pc EXCEPT ![t] = "setError"]
            /\ UNCHANGED <<coll, job, pendingJobs, result>>
       ELSE AfterRegenerate(t, "generate_failed")
    /\ UNCHANGED <<store, isProcessing, op, processedJobs>>

\* await Job.updateStatus(job.id, 'generated', {image_path}) resolves;
\* processJob returns to its caller
SetGenerated(t) ==
    /\ pc[t] = "setGenerated"
    /\ UNCHANGED <<requests, env, generate, manage>>
    /\ jobs' = updateStatus(job[t], "generated", [image_path |-> imagePath])
    /\ IF op[t] \in BatchOps
       THEN /\ processedJobs' = [processedJobs EXCEPT ![t] = Append(@, job[t])]
            /\ NextJob(t, pendingJobs[t])
       ELSE /\ AfterRegenerate(t, "ok")
            /\ UNCHANGED <<isProcessing, processedJobs>>
    /\ UNCHANGED <<imgFile, metaFile, op>>

\* catch of the for loop: await Job.updateStatus(job.id, 'error', {error_message}) resolves
SetError(t) ==
    /\ pc[t] = "setError"
    /\ UNCHANGED <<requests, env, generate, manage>>
    /\ jobs' = updateStatus(job[t], "error", [error_message |-> generateImageError])
    /\ pc' = [pc EXCEPT ![t] = "incrementRetry"]
    /\ UNCHANGED <<imgFile, metaFile, isProcessing, op, coll, job, pendingJobs,
                   processedJobs, result>>

\* a batch whose loop ends with the first failure it has recorded
IncrementRetryEndsBatch(t) ==
    /\ pc[t] = "incrementRetry"
    /\ UNCHANGED <<requests, env, generate, manage>>
    /\ jobs' = incrementRetryCount(job[t])
    /\ NextJob(t, <<>>)
    /\ UNCHANGED <<imgFile, metaFile, op, processedJobs>>

\* await Job.incrementRetryCount(job.id) resolves; the loop goes on
IncrementRetry(t) ==
    /\ pc[t] = "incrementRetry"
    /\ UNCHANGED <<requests, env, generate, manage>>
    /\ jobs' = incrementRetryCount(job[t])
    /\ NextJob(t, pendingJobs[t])
    /\ UNCHANGED <<imgFile, metaFile, op, processedJobs>>

\* ---------------------------------------------------- JobService.approveJob

\* approveJob without its status test, as regenerateJob is written
ApproveJobFindUntested(t, jobId) ==
    /\ job' = [job EXCEPT ![t] = jobId]
    /\ pc' = [pc EXCEPT ![t] = "saveMetadata"]
    /\ result' = [result EXCEPT ![t] = "none"]
    /\ UNCHANGED <<coll, pendingJobs>>

\* approveJob from its findById to the next await: the status test
ApproveJobFind(t, jobId) ==
    IF findById(jobId).status # "generated"
    THEN \* throw new Error('Job must be in generated status to approve')
         Return(t, "not_generated")
    ELSE /\ job' = [job EXCEPT ![t] = jobId]
         /\ pc' = [pc EXCEPT ![t] = "saveMetadata"]
         /\ result' = [result EXCEPT ![t] = "none"]
         /\ UNCHANGED <<coll, pendingJobs>>

\* jobService.approveJob(jobId) called directly: await Job.findById resolves
approveJob(t) ==
    \E jobId \in Jobs :
        /\ Enter(t, "approveJob")
        /\ ApproveJobFind(t, jobId)
        /\ UNCHANGED <<store, isProcessing>>

\* POST /:id/approve: await Job.findById resolves, the route tests the status
\* and calls jobService.approveJob(id)
approveRoute(t) ==
    \E id \in Jobs :
        /\ Enter(t, "approveRoute")
        /\ IF findById(id).status # "generated"
           THEN Return(t, "not_generated")   \* 400
           ELSE /\ job' = [job EXCEPT ![t] = id]
                /\ pc' = [pc EXCEPT ![t] = "approveFind"]
                /\ result' = [result EXCEPT ![t] = "none"]
                /\ UNCHANGED <<coll, pendingJobs>>
        /\ UNCHANGED <<store, isProcessing>>

\* approveJob called by the route: await Job.findById resolves
ApproveFind(t) ==
    /\ pc[t] = "approveFind"
    /\ UNCHANGED <<requests, env, generate, manage>>
    /\ ApproveJobFind(t, job[t])
    /\ UNCHANGED <<store, isProcessing, op, processedJobs>>

\* Collection.findById has resolved, generateNFTMetadata has built the
\* document, saveMetadata writes output/<jobId>.json
SaveMetadataOk(t) ==
    /\ pc[t] = "saveMetadata"
    /\ UNCHANGED <<requests, env, generate, manage>>
    /\ metaFile' = [metaFile EXCEPT ![job[t]] = TRUE]
    /\ pc' = [pc EXCEPT ![t] = "setApproved"]
    /\ UNCHANGED <<jobs, imgFile, isProcessing, op, coll, job, pendingJobs,
                   processedJobs, result>>

\* generateNFTMetadata or saveMetadata throws; approveJob rethrows
SaveMetadataFail(t) ==
    /\ pc[t] = "saveMetadata"
    /\ UNCHANGED <<requests, env, generate, manage>>
    /\ Return(t, "metadata_failed")
    /\ UNCHANGED <<store, isProcessing, op, processedJobs>>

\* await Job.updateStatus(jobId, 'approved', {metadata_path}) resolves
SetApproved(t) ==
    /\ pc[t] = "setApproved"
    /\ UNCHANGED <<requests, env, generate, manage>>
    /\ jobs' = updateStatus(job[t], "approved", [metadata_path |-> metadataPath])
    /\ Return(t, "ok")
    /\ UNCHANGED <<imgFile, metaFile, isProcessing, op, processedJobs>>

\* ------------------------------------------------- JobService.regenerateJob

\* regenerateJob from its findById to the next await: no status test; the
\* old image is unlinked if the row names one and the file exists
RegenerateJobFind(t, jobId) ==
    /\ imgFile' = [imgFile EXCEPT ![jobId] =
                      IF findById(jobId).image_path # NULL /\ imgFile[jobId]
                      THEN FALSE ELSE @]
    /\ job' = [job EXCEPT ![t] = jobId]
    /\ pc' = [pc EXCEPT ![t] = "regenerateReset"]
    /\ UNCHANGED <<jobs, metaFile, isProcessing>>

\* jobService.regenerateJob(jobId) called directly: await Job.findById resolves
regenerateJob(t) ==
    \E jobId \in Jobs :
        /\ Enter(t, "regenerateJob")
        /\ RegenerateJobFind(t, jobId)
        /\ result' = [result EXCEPT ![t] = "none"]
        /\ UNCHANGED <<coll, pendingJobs>>

\* the status test of the two regenerate routes
Regenerable(status) == status \in {"generated", "error"}

\* POST /:id/regenerate: await Job.findById resolves, the route tests the
\* status and calls jobService.regenerateJob(id)
regenerateRoute(t) ==
    \E id \in Jobs :
        /\ Enter(t, "regenerateRoute")
        /\ IF ~Regenerable(findById(id).status)
           THEN Return(t, "not_regenerable")   \* 400
           ELSE /\ job' = [job EXCEPT ![t] = id]
                /\ pc' = [pc EXCEPT ![t] = "regenerateFind"]
                /\ result' = [result EXCEPT ![t] = "none"]
                /\ UNCHANGED <<coll, pendingJobs>>
        /\ UNCHANGED <<store, isProcessing>>

\* regenerateJob called by a route: await Job.findById resolves
RegenerateFind(t) ==
    /\ pc[t] = "regenerateFind"
    /\ UNCHANGED <<requests, env, generate, manage>>
    /\ RegenerateJobFind(t, job[t])
    /\ UNCHANGED <<op, coll, pendingJobs, processedJobs, result>>

\* the reset of regenerateJob without error_message: null
RegenerateResetKeepsError(t) ==
    /\ pc[t] = "regenerateReset"
    /\ UNCHANGED <<requests, env, generate, manage>>
    /\ jobs' = updateStatus(job[t], "pending",
                  [image_path |-> NULL, metadata_path |-> NULL])
    /\ pc' = [pc EXCEPT ![t] = "setGenerating"]
    /\ UNCHANGED <<imgFile, metaFile, isProcessing, op, coll, job, pendingJobs,
                   processedJobs, result>>

\* await Job.updateStatus(jobId, 'pending', {image_path: null, metadata_path:
\* null, error_message: null}) resolves; processJob(job) runs to its first await
RegenerateReset(t) ==
    /\ pc[t] = "regenerateReset"
    /\ UNCHANGED <<requests, env, generate, manage>>
    /\ jobs' = updateStatus(job[t], "pending",
                  [image_path |-> NULL, metadata_path |-> NULL, error_message |-> NULL])
    /\ pc' = [pc EXCEPT ![t] = "setGenerating"]
    /\ UNCHANGED <<imgFile, metaFile, isProcessing, op, coll, job, pendingJobs,
                   processedJobs, result>>

\* the job_ids a batch-regenerate request may carry
JobIdLists == UNION {[1..n -> Jobs] : n \in 1..NumJobs}

\* POST /batch-regenerate with a non-empty job_ids array, up to the first await
batchRegenerate(t) ==
    \E job_ids \in JobIdLists :
        /\ Enter(t, "batchRegenerate")
        /\ pendingJobs' = [pendingJobs EXCEPT ![t] = job_ids]
        /\ pc' = [pc EXCEPT ![t] = "regenerateCheck"]
        /\ job' = [job EXCEPT ![t] = 0]
        /\ result' = [result EXCEPT ![t] = "none"]
        /\ UNCHANGED <<store, isProcessing, coll>>

\* batch-regenerate loop: await Job.findById(jobId) resolves, the status is
\* tested; a job that fails the test goes to errors and the loop continues
RegenerateCheck(t) ==
    /\ pc[t] = "regenerateCheck"
    /\ UNCHANGED <<requests, env, generate, manage>>
    /\ LET jobId == Head(pendingJobs[t])
           rest == Tail(pendingJobs[t])
       IN  IF ~Regenerable(findById(jobId).status)
           THEN IF rest = <<>>
                THEN Return(t, "ok")
                ELSE /\ pendingJobs' = [pendingJobs EXCEPT ![t] = rest]
                     /\ UNCHANGED <<pc, job, coll, result>>
           ELSE /\ job' = [job EXCEPT ![t] = jobId]
                /\ pendingJobs' = [pendingJobs EXCEPT ![t] = rest]
                /\ pc' = [pc EXCEPT ![t] = "regenerateFind"]
                /\ UNCHANGED <<coll, result>>
    /\ UNCHANGED <<store, isProcessing, op, processedJobs>>

\* ------------------------------------------------------------ the system

Next ==
    \E t \in Calls :
        \/ processInitialBatch(t)
        \/ continueBatchProcessing(t)
        \/ FindPending(t)
        \/ SetGenerating(t)
        \/ GenerateImageOk(t)
        \/ GenerateImageFail(t)
        \/ SetGenerated(t)
        \/ SetError(t)
        \/ IncrementRetry(t)
        \/ approveJob(t)
        \/ approveRoute(t)
        \/ ApproveFind(t)
        \/ SaveMetadataOk(t)
        \/ SaveMetadataFail(t)
        \/ SetApproved(t)
        \/ regenerateJob(t)
        \/ regenerateRoute(t)
        \/ RegenerateFind(t)
        \/ RegenerateReset(t)
        \/ batchRegenerate(t)
        \/ RegenerateCheck(t)
        \/ Respond(t)

Spec == Init /\ [][Next]_vars

\* The service as the HTTP routes of src/ use it: approveJob and
\* regenerateJob are reached only through the routes' status tests
RouteNext ==
    \E t \in Calls :
        \/ processInitialBatch(t)
        \/ continueBatchProcessing(t)
        \/ FindPending(t)
        \/ SetGenerating(t)
        \/ GenerateImageOk(t)
        \/ GenerateImageFail(t)
        \/ SetGenerated(t)
        \/ SetError(t)
        \/ IncrementRetry(t)
        \/ approveRoute(t)
        \/ ApproveFind(t)
        \/ SaveMetadataOk(t)
        \/ SaveMetadataFail(t)
        \/ SetApproved(t)
        \/ regenerateRoute(t)
        \/ RegenerateFind(t)
        \/ RegenerateReset(t)
        \/ batchRegenerate(t)
        \/ RegenerateCheck(t)
        \/ Respond(t)

RouteSpec == Init /\ [][RouteNext]_vars

\* the values a deployment gives INITIAL_BATCH_SIZE and CONTINUE_BATCH_SIZE
EnvValues == {NULL, "0", "1"}

\* the same service constructed under any of these environments
ConfiguredInit ==
    /\ \E e \in [{"INITIAL_BATCH_SIZE", "CONTINUE_BATCH_SIZE"} -> EnvValues] : StudioInit(e)
    /\ ServerInit

ConfiguredSpec == ConfiguredInit /\ [][RouteNext]_vars

\* ------------------------------ batches over a database that may reject

\* the message of the error db.run hands to its callback
databaseError == "SQLITE_ERROR"

\* the outer catch of a batch function: this.isProcessing = false; throw error
BatchThrows(t) ==
    /\ isProcessing' = FALSE
    /\ Return(t, "database_failed")

\* await Job.findByCollectionId(collectionId, 'pending', batchSize) rejects
FindPendingRejects(t) ==
    /\ pc[t] = "findPending"
    /\ BatchThrows(t)
    /\ UNCHANGED <<store, op, processedJobs, requests, env, generate, manage>>

\* processJob in a batch: await Job.updateStatus(job.id, 'generating')
\* rejects; processJob rethrows and the catch of the for loop takes over
SetGeneratingRejects(t) ==
    /\ pc[t] = "setGenerating"
    /\ op[t] \in BatchOps
    /\ pc' = [pc EXCEPT ![t] = "setDatabaseError"]
    /\ UNCHANGED <<store, isProcessing, op, coll, job, pendingJobs, processedJobs,
                   result, requests, env, generate, manage>>

\* processJob in a batch: await Job.updateStatus(job.id, 'generated',
\* {image_path}) rejects, the image file written; the catch of the for loop
\* takes over
SetGeneratedRejects(t) ==
    /\ pc[t] = "setGenerated"
    /\ op[t] \in BatchOps
    /\ pc' = [pc EXCEPT ![t] = "setDatabaseError"]
    /\ UNCHANGED <<store, isProcessing, op, coll, job, pendingJobs, processedJobs,
                   result, requests, env, generate, manage>>

\* catch of the for loop after a rejected update: await
\* Job.updateStatus(job.id, 'error', {error_message: error.message}) resolves
SetDatabaseError(t) ==
    /\ pc[t] = "setDatabaseError"
    /\ jobs' = updateStatus(job[t], "error", [error_message |-> databaseError])
    /\ pc' = [pc EXCEPT ![t] = "incrementRetry"]
    /\ UNCHANGED <<imgFile, metaFile, isProcessing, op, coll, job, pendingJobs,
                   processedJobs, result, requests, env, generate, manage>>

\* catch of the for loop: await Job.updateStatus(job.id, 'error', ...)
\* rejects; the error leaves the loop for the outer catch
SetErrorRejects(t) ==
    /\ pc[t] \in {"setError", "setDatabaseError"}
    /\ BatchThrows(t)
    /\ UNCHANGED <<store, op, processedJobs, requests, env, generate, manage>>

\* catch of the for loop: await Job.incrementRetryCount(job.id) rejects; the
\* error leaves the loop for the outer catch
IncrementRetryRejects(t) ==
    /\ pc[t] = "incrementRetry"
    /\ BatchThrows(t)
    /\ UNCHANGED <<store, op, processedJobs, requests, env, generate, manage>>

\* a step of a batch call that is under way: one of its awaits settles
BatchStep(t) ==
    \/ FindPending(t)
    \/ FindPendingRejects(t)
    \/ SetGenerating(t)
    \/ SetGeneratingRejects(t)
    \/ GenerateImageOk(t)
    \/ GenerateImageFail(t)
    \/ SetGenerated(t)
    \/ SetGeneratedRejects(t)
    \/ SetError(t)
    \/ SetDatabaseError(t)
    \/ SetErrorRejects(t)
    \/ IncrementRetry(t)
    \/ IncrementRetryRejects(t)

StorageNext ==
    \E t \in Calls :
        \/ processInitialBatch(t)
        \/ continueBatchProcessing(t)
        \/ BatchStep(t)
        \/ Respond(t)

\* the two batch entry points over a database whose calls resolve or reject
StorageSpec == Init /\ [][StorageNext]_vars

\* every call the batch awaits returns or fails
StorageFairSpec == StorageSpec /\ \A t \in Calls : WF_vars(BatchStep(t))

\* ------------------------- collection and job routes (routes/*.js, models)

\* a row of the collections table after DELETE FROM collections WHERE id = ?
Deleted == [total_supply |-> 0, drop_supply |-> 0, status |-> "deleted"]

\* Collection.findById(id): the row, or null
CollectionFound(id) == id \in DOMAIN collections /\ collections[id] # Deleted

\* Job.findByCollectionId(collectionId, 'approved'): no limit given, so no
\* LIMIT clause; ORDER BY edition_number ASC
findApproved(collectionId) ==
    OrderByEdition({j \in rows : /\ collection_id(j) = collectionId
                                 /\ jobs[j].status = "approved"})

\* a request to a collection or job route arrives and runs to its first await
Arrive(request) ==
    /\ mpc = "idle"
    /\ requests < MaxRequests
    /\ requests' = requests + 1
    /\ mreq' = request
    /\ UNCHANGED <<isProcessing, pc, op, coll, job, pendingJobs, processedJobs, result,
                   env, generate>>

\* the handler answers
Answer(response) ==
    /\ mres' = response
    /\ mpc' = "idle"

\* the handler is between two awaits
Handling ==
    UNCHANGED <<isProcessing, pc, op, coll, job, pendingJobs, processedJobs, result,
                requests, env, generate, mreq>>

\* the ids a request may name: the collections and jobs there are or were,
\* and one id that was never given out
CollectionIds == 1..(MaxCollections + 1)
JobIds == 1..(NumJobs + 1)

\* Job.createBatch gives job i of a collection edition_in_drop: i as well
edition_in_drop(j) == edition_number(j)

\* an entry of the package: its name is stem, or number, followed by ext;
\* made from the file of a job, or from generated content (job 0)
Entry(stem, number, ext, job_id) ==
    [stem |-> stem, number |-> number, ext |-> ext, job |-> job_id]

\* createCollectionPackage, approvedJobs.forEach: the image of a job is added
\* if the row names one and the file exists, and so is its metadata, each on
\* its own, both named by edition_in_drop
RECURSIVE JobEntries(_)
JobEntries(approvedJobs) ==
    IF approvedJobs = <<>> THEN <<>>
    ELSE LET j == Head(approvedJobs)
             editionNumber == edition_in_drop(j)
         IN  (IF jobs[j].image_path # NULL /\ imgFile[j]
              THEN <<Entry("", editionNumber, "png", j)>> ELSE <<>>)
             \o (IF jobs[j].metadata_path # NULL /\ metaFile[j]
                 THEN <<Entry("", editionNumber, "json", j)>> ELSE <<>>)
             \o JobEntries(Tail(approvedJobs))

\* what createCollectionPackage appends to the archive: collection.json, the
\* entries of the approved jobs, README.md
PackageEntries(approvedJobs) ==
    <<Entry("collection", 0, "json", 0)>>
        \o JobEntries(approvedJobs)
        \o <<Entry("README", 0, "md", 0)>>

\* POST /:id/package: await Collection.findById resolves
packageRoute ==
    \E id \in CollectionIds :
        /\ Arrive([route |-> "package", id |-> id])
        /\ IF ~CollectionFound(id)
           THEN Answer([status |-> 404, error |-> "Collection not found"])
           ELSE mpc' = "packageFindApproved" /\ UNCHANGED mres
        /\ UNCHANGED <<store, collections, rows, package>>

\* POST /:id/package: await Job.findByCollectionId(id, 'approved') resolves;
\* createCollectionPackage is called and runs to its first await
PackageFindApproved ==
    /\ mpc = "packageFindApproved"
    /\ IF findApproved(mreq.id) = <<>>
       THEN Answer([status |-> 400, error |-> "No approved NFTs found for this collection"])
       ELSE mpc' = "packageCollection" /\ UNCHANGED mres
    /\ Handling
    /\ UNCHANGED <<store, collections, rows, package>>

\* createCollectionPackage: await Collection.findById resolves
PackageCollection ==
    /\ mpc = "packageCollection"
    /\ IF ~CollectionFound(mreq.id)
       THEN Answer([status |-> 500, error |-> "Failed to create package",
                    details |-> "Collection not found"])
       ELSE mpc' = "packageJobs" /\ UNCHANGED mres
    /\ Handling
    /\ UNCHANGED <<store, collections, rows, package>>

\* createCollectionPackage: await Job.findByCollectionId resolves; the
\* archive is written, from archive.pipe(output) to archive.finalize()
PackageJobs ==
    /\ mpc = "packageJobs"
    /\ LET approvedJobs == findApproved(mreq.id)
       IN  IF approvedJobs = <<>>
           THEN /\ Answer([status |-> 500, error |-> "Failed to create package",
                           details |-> "No approved jobs found for collection"])
                /\ UNCHANGED package
           ELSE /\ package' = PackageEntries(approvedJobs)
                /\ mpc' = "packageClose"
                /\ UNCHANGED mres
    /\ Handling
    /\ UNCHANGED <<store, collections, rows>>

\* the output stream closes: createCollectionPackage resolves with zipPath
\* alone.  The route goes on to Collection.update(id, {...}), which the
\* Collection model does not define: TypeError, caught by the route
PackageClose ==
    /\ mpc = "packageClose"
    /\ Answer([status |-> 500, error |-> "Failed to create package",
               details |-> "Collection.update is not a function"])
    /\ Handling
    /\ UNCHANGED <<store, collections, rows, package>>

\* DELETE /api/jobs/:id: await Job.findById resolves; the files the row
\* names are unlinked if they exist; then Job.delete(id), which the Job
\* model does not define: TypeError, caught by the route, the row stays
deleteJobRoute ==
    \E id \in JobIds :
        /\ Arrive([route |-> "deleteJob", id |-> id])
        /\ IF id \notin rows
           THEN /\ Answer([status |-> 404, error |-> "Job not found"])
                /\ UNCHANGED <<imgFile, metaFile>>
           ELSE /\ imgFile' = [imgFile EXCEPT ![id] = @ /\ jobs[id].image_path = NULL]
                /\ metaFile' = [metaFile EXCEPT ![id] = @ /\ jobs[id].metadata_path = NULL]
                /\ Answer([status |-> 500, error |-> "Failed to delete job",
                           details |-> "Job.delete is not a function"])
        /\ UNCHANGED <<jobs, collections, rows, package>>

\* DELETE /api/collections/:id: await Collection.findById resolves
deleteCollectionRoute ==
    \E id \in CollectionIds :
        /\ Arrive([route |-> "deleteCollection", id |-> id])
        /\ IF ~CollectionFound(id)
           THEN Answer([status |-> 404, error |-> "Collection not found"])
           ELSE mpc' = "deleteByCollectionId" /\ UNCHANGED mres
        /\ UNCHANGED <<store, collections, rows, package>>

\* await Job.deleteByCollectionId(id) resolves: DELETE FROM jobs WHERE
\* collection_id = ?
DeleteByCollectionId ==
    /\ mpc = "deleteByCollectionId"
    /\ rows' = {j \in rows : collection_id(j) # mreq.id}
    /\ mpc' = "collectionDelete"
    /\ Handling
    /\ UNCHANGED <<store, collections, package, mres>>

\* await Collection.delete(id) resolves: DELETE FROM collections WHERE id = ?
CollectionDelete ==
    /\ mpc = "collectionDelete"
    /\ collections' = [collections EXCEPT ![mreq.id] = Deleted]
    /\ Answer([status |-> 200, message |-> "Collection and all associated jobs deleted"])
    /\ Handling
    /\ UNCHANGED <<store, rows, package>>

\* the values total_supply and drop_supply of a JSON body may have: a
\* number, a string of decimal digits, or no value
Number(n) == [type |-> "number", number |-> n, digits |-> <<>>]
Text(digits) == [type |-> "string", number |-> 0, digits |-> digits]
undefined == [type |-> "undefined", number |-> 0, digits |-> <<>>]

\* !value: undefined, 0 and the empty string are falsy
Not(value) ==
    \/ value.type = "undefined"
    \/ value.type = "number" /\ value.number = 0
    \/ value.type = "string" /\ value.digits = <<>>

\* the number a string of decimal digits stands for
RECURSIVE DigitsValue(_)
DigitsValue(digits) ==
    IF digits = <<>> THEN 0
    ELSE 10 * DigitsValue(SubSeq(digits, 1, Len(digits) - 1)) + digits[Len(digits)]

\* s < t for two strings: by code units, from the left
RECURSIVE StringLess(_, _)
StringLess(s, t) ==
    IF t = <<>> THEN FALSE
    ELSE IF s = <<>> THEN TRUE
    ELSE IF Head(s) # Head(t) THEN Head(s) < Head(t)
    ELSE StringLess(Tail(s), Tail(t))

\* a < b: two strings are compared as strings, anything else as numbers
LessThan(a, b) ==
    IF a.type = "string" /\ b.type = "string"
    THEN StringLess(a.digits, b.digits)
    ELSE (IF a.type = "string" THEN DigitsValue(a.digits) ELSE a.number)
            < (IF b.type = "string" THEN DigitsValue(b.digits) ELSE b.number)

\* parseInt(value) of an integer or of a string of digits
parseIntOf(value) ==
    IF value.type = "string" THEN DigitsValue(value.digits) ELSE value.number

\* the values the two supplies of a create request take
SupplyValues ==
    {Number(n) : n \in (0 - 1)..MaxValue}
        \cup {Text(<<9>>), Text(<<1, 0>>), Text(<<0>>), undefined}

\* POST /api/collections up to await Collection.create; the other required
\* fields are present
createCollectionRoute ==
    \E total, drop \in SupplyValues :
        /\ Len(collections) < MaxCollections
        /\ Arrive([route |-> "createCollection", total_supply |-> total,
                   drop_supply |-> drop])
        /\ IF Not(total) \/ Not(drop)
           THEN Answer([status |-> 400, error |-> "Missing required fields"])
           ELSE IF LessThan(total, drop)
           THEN Answer([status |-> 400,
                        error |-> "Drop supply cannot be greater than total supply"])
           ELSE mpc' = "collectionCreate" /\ UNCHANGED mres
        /\ UNCHANGED <<store, collections, rows, package>>

\* await Collection.create({..., total_supply: parseInt(total_supply),
\* drop_supply: parseInt(drop_supply), status: 'created'}) resolves: the row
\* is inserted under a new id
CollectionCreate ==
    /\ mpc = "collectionCreate"
    /\ collections' = Append(collections,
                             [total_supply |-> parseIntOf(mreq.total_supply),
                              drop_supply |-> parseIntOf(mreq.drop_supply),
                              status |-> "created"])
    /\ Answer([status |-> 201, id |-> Len(collections) + 1])
    /\ Handling
    /\ UNCHANGED <<store, rows, package>>

\* what the job service leaves of a job once its calls have returned: the row
\* and whether its image and its metadata file exist.  Pending; generated;
\* approved; failed; and approved by an approval that a regeneration of the
\* same job overtook, which unlinked the image and reset image_path
SettledJobs ==
    {[row |-> NewJob, image |-> FALSE, metadata |-> FALSE],
     [row |-> [NewJob EXCEPT !.status = "generated", !.image_path = imagePath],
      image |-> TRUE, metadata |-> FALSE],
     [row |-> [NewJob EXCEPT !.status = "approved", !.image_path = imagePath,
                             !.metadata_path = metadataPath],
      image |-> TRUE, metadata |-> TRUE],
     [row |-> [NewJob EXCEPT !.status = "error", !.error_message = generateImageError,
                             !.retry_count = 1],
      image |-> FALSE, metadata |-> FALSE],
     [row |-> [NewJob EXCEPT !.status = "approved", !.metadata_path = metadataPath],
      image |-> FALSE, metadata |-> TRUE]}

\* the studio with no call of the job service under way, its jobs as the
\* service left them
ManageInit ==
    /\ \E settled \in [Jobs -> SettledJobs] :
          /\ jobs = [j \in Jobs |-> settled[j].row]
          /\ imgFile = [j \in Jobs |-> settled[j].image]
          /\ metaFile = [j \in Jobs |-> settled[j].metadata]
    /\ isProcessing = FALSE
    /\ pc = [t \in Calls |-> "idle"]
    /\ op = [t \in Calls |-> "none"]
    /\ coll = [t \in Calls |-> 0]
    /\ job = [t \in Calls |-> 0]
    /\ pendingJobs = [t \in Calls |-> <<>>]
    /\ processedJobs = [t \in Calls |-> <<>>]
    /\ result = [t \in Calls |-> "none"]
    /\ requests = 0
    /\ env = DefaultEnv
    /\ collections = [c \in Collections |-> StoredCollection]
    /\ rows = Jobs
    /\ package = <<>>
    /\ mreq = [route |-> "none"]
    /\ mres = [status |-> 0]
    /\ mpc = "idle"
    /\ ServerInit

ManageNext ==
    \/ packageRoute
    \/ PackageFindApproved
    \/ PackageCollection
    \/ PackageJobs
    \/ PackageClose
    \/ deleteJobRoute
    \/ deleteCollectionRoute
    \/ DeleteByCollectionId
    \/ CollectionDelete
    \/ createCollectionRoute
    \/ CollectionCreate

\* the collection and job routes, one request at a time, on a studio whose
\* job service is at rest
ManageSpec == ManageInit /\ [][ManageNext]_vars

\* ------------------------------------- direct-image server (server.js)

\* Math.ceil(a / b) for positive integers
ceil(a, b) == (a + b - 1) \div b

\* Math.min
min(a, b) == IF a < b THEN a ELSE b

\* the seeds of one image with editionTotal: editionsPerImage for every image
ImageSeedsFullTotal(tier, imageIndex, currentIndex) ==
    LET editionsForThisImage ==
            min(tier.editionsPerImage, tier.nftCount - (imageIndex * tier.editionsPerImage))
    IN  [edition \in 1..editionsForThisImage |->
            [sourceImage |-> tier.images[imageIndex + 1],
             rarityTier |-> tier.type,
             artId |-> <<tier.artIdPrefix, imageIndex + 1>>,
             editionNumber |-> edition,
             editionTotal |-> tier.editionsPerImage,
             globalIndex |-> currentIndex + (edition - 1)]]

\* the seeds of one image with the images of the tier taken from the last
ImageSeedsLastImageFirst(tier, imageIndex, currentIndex) ==
    LET editionsForThisImage ==
            min(tier.editionsPerImage, tier.nftCount - (imageIndex * tier.editionsPerImage))
    IN  [edition \in 1..editionsForThisImage |->
            [sourceImage |-> tier.images[Len(tier.images) - imageIndex],
             rarityTier |-> tier.type,
             artId |-> <<tier.artIdPrefix, imageIndex + 1>>,
             editionNumber |-> edition,
             editionTotal |-> editionsForThisImage,
             globalIndex |-> currentIndex + (edition - 1)]]

\* createJobQueue, the innermost loop: the seeds of one image, editions
\* 1..editionsForThisImage, globalIndex counting on from currentIndex
ImageSeeds(tier, imageIndex, currentIndex) ==
    LET editionsForThisImage ==
            min(tier.editionsPerImage, tier.nftCount - (imageIndex * tier.editionsPerImage))
    IN  [edition \in 1..editionsForThisImage |->
            [sourceImage |-> tier.images[imageIndex + 1],
             rarityTier |-> tier.type,
             artId |-> <<tier.artIdPrefix, imageIndex + 1>>,
             editionNumber |-> edition,
             editionTotal |-> editionsForThisImage,
             globalIndex |-> currentIndex + (edition - 1)]]

\* the loop over the images with currentIndex not carried on from image to image
RECURSIVE ImageLoopSameIndex(_, _, _, _)
ImageLoopSameIndex(tier, imageIndex, imagesNeeded, currentIndex) ==
    IF imageIndex >= imagesNeeded THEN <<>>
    ELSE ImageSeeds(tier, imageIndex, currentIndex)
             \o ImageLoopSameIndex(tier, imageIndex + 1, imagesNeeded, currentIndex)

\* createJobQueue, the loop over imageIndex from imageIndex to imagesNeeded - 1
RECURSIVE ImageLoop(_, _, _, _)
ImageLoop(tier, imageIndex, imagesNeeded, currentIndex) ==
    IF imageIndex >= imagesNeeded THEN <<>>
    ELSE LET seeds == ImageSeeds(tier, imageIndex, currentIndex)
         IN  seeds \o ImageLoop(tier, imageIndex + 1, imagesNeeded, currentIndex + Len(seeds))

\* the loop over the tiers with a tier that has too few images passed over
\* instead of throwing
RECURSIVE TierLoopSkipsShortTier(_, _)
TierLoopSkipsShortTier(rarityTiers, queue) ==
    IF rarityTiers = <<>> THEN [threw |-> FALSE, jobQueue |-> queue]
    ELSE LET tier == Head(rarityTiers)
             imagesNeeded == ceil(tier.nftCount, tier.editionsPerImage)
         IN  IF Len(tier.images) < imagesNeeded
             THEN TierLoopSkipsShortTier(Tail(rarityTiers), queue)
             ELSE TierLoopSkipsShortTier(Tail(rarityTiers),
                           queue \o ImageLoop(tier, 0, imagesNeeded, Len(queue)))

\* createJobQueue, the loop over the tiers: the queue built so far is
\* jobQueue (so currentIndex is its length); a tier with too few images
\* throws, and nothing is returned
RECURSIVE TierLoop(_, _)
TierLoop(rarityTiers, queue) ==
    IF rarityTiers = <<>> THEN [threw |-> FALSE, jobQueue |-> queue]
    ELSE LET tier == Head(rarityTiers)
             imagesNeeded == ceil(tier.nftCount, tier.editionsPerImage)
         IN  IF Len(tier.images) < imagesNeeded
             THEN [threw |-> TRUE,
                   error |-> [message |-> "Tier needs images", tier |-> tier.type,
                              needs |-> imagesNeeded, provided |-> Len(tier.images)]]
             ELSE TierLoop(Tail(rarityTiers),
                           queue \o ImageLoop(tier, 0, imagesNeeded, Len(queue)))

\* createJobQueue(rarityTiers, totalSupply); totalSupply is not used
createJobQueue(rarityTiers, totalSupply) == TierLoop(rarityTiers, <<>>)

\* draws of Math.floor(Math.random() * n) at every position: any index
RandomDrawsAnyIndex(n) == [1..(n - 1) -> 0..(n - 1)]

\* the draws of Math.floor(Math.random() * (i + 1)) for i = n-1 .. 1
RandomDraws(n) == {r \in [1..(n - 1) -> 0..(n - 1)] : \A k \in 1..(n - 1) : r[k] <= k}

\* shuffleArray, the loop from index k down to 1 (indices of the code, from 0)
RECURSIVE ShuffleLoop(_, _, _)
ShuffleLoop(shuffled, k, random) ==
    IF k <= 0 THEN shuffled
    ELSE LET j == random[k]
             swapped == [shuffled EXCEPT ![k + 1] = shuffled[j + 1],
                                         ![j + 1] = shuffled[k + 1]]
         IN  ShuffleLoop(swapped, k - 1, random)

\* shuffleArray(array) under the draws random
shuffleArray(array, random) == ShuffleLoop(array, Len(array) - 1, random)

\* String(n): the decimal digits of n
RECURSIVE String(_)
String(n) == IF n < 10 THEN <<n>> ELSE String(n \div 10) \o <<n % 10>>

\* str.padStart(targetLength, pad)
padStart(str, targetLength, pad) ==
    IF Len(str) >= targetLength THEN str
    ELSE [k \in 1..(targetLength - Len(str)) |-> pad] \o str

\* String(i).padStart(5, '0')
paddedIndex(index) == padStart(String(index), 5, 0)

\* generateMetadata: the fields that depend on the job and on paddedIndex
generateMetadata(seed, padded) ==
    [name |-> padded, image |-> padded, uri |-> padded,
     rarity_tier |-> seed.rarityTier, edition_total |-> seed.editionTotal,
     edition_number |-> seed.editionNumber, art_id |-> seed.artId]

\* folder.file(name, data): an entry of that name is replaced
file(archive, folder, name, data) ==
    {e \in archive : ~(e.folder = folder /\ e.name = name)}
        \cup {[folder |-> folder, name |-> name, data |-> data]}

\* the tiers a request may describe, and the types the form offers
TierTypes == {"1/1", "common"}
TierData ==
    [type : TierTypes, nftCount : 0..MaxNftCount, editionsPerImage : 1..MaxEditions,
     artIdPrefix : {"ART"}]

\* the files of a multipart request when the client names them as the form
\* does, tier_<tierIndex>_file_<fileIndex> (App.js:130-134), uploaded[k]
\* files for tier k, in tier order
RECURSIVE TierFiles(_, _)
TierFiles(uploaded, k) ==
    IF k > Len(uploaded) THEN <<>>
    ELSE [f \in 1..uploaded[k] |-> [fieldname |-> <<"tier", k - 1, "file", f - 1>>]]
             \o TierFiles(uploaded, k + 1)

\* the files of a multipart request when the client sends count files under
\* the one field name images
ImagesFiles(count) == [f \in 1..count |-> [fieldname |-> <<"images">>, file |-> f - 1]]

\* upload.array('images'): multer passes the files of field images and fails
\* the request with LIMIT_UNEXPECTED_FILE on a file of any other field
UnexpectedField(files) == \E f \in DOMAIN files : files[f].fieldname # <<"images">>

\* file.fieldname.startsWith(`tier_${tierIndex}_`)
startsWithTier(fieldname, tierIndex) ==
    /\ Len(fieldname) >= 2
    /\ fieldname[1] = "tier"
    /\ fieldname[2] = tierIndex

\* rarityTiers.map(tier => ({...tier, images: uploadedFiles.filter(file =>
\* file.fieldname.startsWith(`tier_${rarityTiers.indexOf(tier)}_`))}))
processedTiers(rarityTiers, uploadedFiles) ==
    [k \in DOMAIN rarityTiers |->
        [type |-> rarityTiers[k].type,
         nftCount |-> rarityTiers[k].nftCount,
         editionsPerImage |-> rarityTiers[k].editionsPerImage,
         artIdPrefix |-> rarityTiers[k].artIdPrefix,
         images |-> SelectSeq(uploadedFiles,
                              LAMBDA f : startsWithTier(f.fieldname, k - 1))]]

\* the handler answers and is finished
Send(response) ==
    /\ res' = response
    /\ gpc' = "sent"

\* POST /api/generate from createJobQueue(processedTiers, totalSupply) to
\* the first await: the length test, shuffleArray, the empty archive and the
\* loop up to await sharp(...) of its first iteration; a throw of
\* createJobQueue goes to the catch block of the handler
Generate(processed, totalSupply, randomizeOrder) ==
    LET queue == createJobQueue(processed, totalSupply)
    IN  /\ tiers' = processed
        /\ IF queue.threw
           THEN /\ Send([status |-> 500, error |-> "Generation failed",
                         details |-> queue.error])
                /\ UNCHANGED <<jobQueue, finalQueue>>
           ELSE IF Len(queue.jobQueue) # totalSupply
           THEN /\ Send([status |-> 400,
                         error |-> "Job queue length doesn't match total supply",
                         length |-> Len(queue.jobQueue), totalSupply |-> totalSupply])
                /\ jobQueue' = queue.jobQueue
                /\ UNCHANGED finalQueue
           ELSE /\ jobQueue' = queue.jobQueue
                /\ IF randomizeOrder
                   THEN \E random \in RandomDraws(Len(queue.jobQueue)) :
                           finalQueue' = shuffleArray(queue.jobQueue, random)
                   ELSE finalQueue' = queue.jobQueue
                /\ gpc' = IF 0 < totalSupply THEN "sharp" ELSE "generateAsync"
                /\ UNCHANGED res
        /\ UNCHANGED <<zip, i>>

\* POST /api/generate from the request to the first await: multer, the test
\* for uploaded files, the mapping of the files to the tiers, then the
\* handler from createJobQueue on.  The client names its files as the form
\* does or sends them all as images
generateRoute ==
    /\ gpc = "listening"
    /\ \E n \in 0..MaxTiers :
       \E rarityTiers \in [1..n -> TierData], totalSupply \in 0..MaxSupply,
          randomizeOrder \in BOOLEAN,
          files \in {TierFiles(uploaded, 1) : uploaded \in [1..n -> 0..MaxImages]}
                       \cup {ImagesFiles(count) : count \in 0..MaxImages} :
          /\ req' = [rarityTiers |-> rarityTiers, totalSupply |-> totalSupply,
                     advancedOptions |-> [randomizeOrder |-> randomizeOrder],
                     files |-> files]
          /\ IF UnexpectedField(files)
             THEN \* MulterError, not LIMIT_FILE_SIZE or LIMIT_FILE_COUNT: the
                  \* error handling middleware
                  /\ Send([status |-> 500, error |-> "Internal server error"])
                  /\ UNCHANGED <<tiers, jobQueue, finalQueue, zip, i>>
             ELSE IF Len(files) = 0
             THEN /\ Send([status |-> 400, error |-> "No images uploaded"])
                  /\ UNCHANGED <<tiers, jobQueue, finalQueue, zip, i>>
             ELSE Generate(processedTiers(rarityTiers, files), totalSupply, randomizeOrder)
    /\ UNCHANGED studio

\* the tiers createJobQueue may be given: the tiers of a request, tier k
\* carrying uploaded[k] of the files named for it
TiersWithImages(rarityTiers, uploaded) ==
    [k \in DOMAIN rarityTiers |->
        [type |-> rarityTiers[k].type,
         nftCount |-> rarityTiers[k].nftCount,
         editionsPerImage |-> rarityTiers[k].editionsPerImage,
         artIdPrefix |-> rarityTiers[k].artIdPrefix,
         images |-> [f \in 1..uploaded[k] |->
                        [fieldname |-> <<"tier", k - 1, "file", f - 1>>]]]]

\* createJobQueue applied to tiers that carry their images, and the handler
\* from there on
Expand ==
    /\ gpc = "listening"
    /\ \E n \in 1..MaxTiers :
       \E rarityTiers \in [1..n -> TierData], uploaded \in [1..n -> 0..MaxImages],
          totalSupply \in 0..MaxSupply, randomizeOrder \in BOOLEAN :
          /\ req' = [rarityTiers |-> rarityTiers, totalSupply |-> totalSupply,
                     advancedOptions |-> [randomizeOrder |-> randomizeOrder],
                     files |-> TierFiles(uploaded, 1)]
          /\ Generate(TiersWithImages(rarityTiers, uploaded), totalSupply, randomizeOrder)
    /\ UNCHANGED studio

\* await sharp(imageBuffer).png().toBuffer() settles, and the rest of the
\* iteration: when sharp rejects the catch only warns, so in both cases the
\* image of the seed is filed (as PNG, or as uploaded), then the metadata;
\* i++ and the loop test.  extractDominantColors and calculateSHA256 only
\* add fields to the metadata
Sharp ==
    /\ gpc = "sharp"
    /\ LET padded == paddedIndex(i)
           seed == finalQueue[i + 1]
       IN  zip' = file(file(zip, "images", <<padded, "png">>, seed.sourceImage),
                       "json", <<padded, "json">>, generateMetadata(seed, padded))
    /\ i' = i + 1
    /\ gpc' = IF i + 1 < req.totalSupply THEN "sharp" ELSE "generateAsync"
    /\ UNCHANGED <<req, tiers, jobQueue, finalQueue, res, studio>>

\* await zip.generateAsync resolves: the archive is sent
GenerateAsyncOk ==
    /\ gpc = "generateAsync"
    /\ Send([status |-> 200, body |-> zip])
    /\ UNCHANGED <<req, tiers, jobQueue, finalQueue, zip, i, studio>>

\* zip.generateAsync rejects: the catch block of the handler
GenerateAsyncFail ==
    /\ gpc = "generateAsync"
    /\ Send([status |-> 500, error |-> "Generation failed",
             details |-> [message |-> "generateAsync"]])
    /\ UNCHANGED <<req, tiers, jobQueue, finalQueue, zip, i, studio>>

\* The route as server.js defines it.  No file that multer passes has a
\* fieldname starting with tier_, so every tier is mapped to no image and
\* the loop over the NFTs is never entered: Sharp has no place here
GenerateNext ==
    \/ generateRoute
    \/ GenerateAsyncOk
    \/ GenerateAsyncFail

GenerateSpec == Init /\ [][GenerateNext]_vars

\* createJobQueue on tiers that carry images, and the handler from there on
ExpandNext ==
    \/ Expand
    \/ Sharp
    \/ GenerateAsyncOk
    \/ GenerateAsyncFail

ExpandSpec == Init /\ [][ExpandNext]_vars

\* the first index that String() writes with more digits than padStart(5, '0')
\* asks for
FirstLongIndex == 100000

\* a collection of one image in totalSupply editions: the seeds of positions
\* from + 1 .. totalSupply of its queue
QueueFrom(from, totalSupply) ==
    [k \in (from + 1)..totalSupply |->
        [sourceImage |-> [fieldname |-> <<"tier", 0, "file", 0>>],
         rarityTier |-> "common",
         artId |-> <<"ART", 1>>,
         editionNumber |-> k,
         editionTotal |-> totalSupply,
         globalIndex |-> k - 1]]

\* the loop over the NFTs about to number index from of a collection of
\* totalSupply: small collections from index 0; collections of about
\* FirstLongIndex from an index shortly before it, finalQueue holding the
\* seeds still to come and zip the entries filed from that index on
NumberingInit ==
    /\ StudioInit(DefaultEnv)
    /\ \E totalSupply \in 1..MaxSupply \cup
                          (FirstLongIndex - MaxOver)..(FirstLongIndex + MaxOver) :
       \E from \in {0} \cup (FirstLongIndex - MaxOver - 1)..(FirstLongIndex + MaxOver) :
          /\ from < totalSupply
          /\ from = 0 => totalSupply <= MaxSupply
          /\ req = [rarityTiers |-> <<>>, totalSupply |-> totalSupply,
                    advancedOptions |-> [randomizeOrder |-> FALSE], files |-> <<>>]
          /\ finalQueue = QueueFrom(from, totalSupply)
          /\ i = from
    /\ tiers = <<>>
    /\ jobQueue = <<>>
    /\ zip = {}
    /\ res = NoResponse
    /\ gpc = "sharp"

NumberingNext ==
    \/ Sharp
    \/ GenerateAsyncOk
    \/ GenerateAsyncFail

\* the loop over the NFTs, from an index on, and the end of the handler
NumberingSpec == NumberingInit /\ [][NumberingNext]_vars

\* the arrays shuffleArray is applied to: up to MaxLength elements, equal
\* elements among them
Arrays == UNION {[1..n -> 1..MaxLength] : n \in 0..MaxLength}

\* shuffleArray about to be called on an array (held in jobQueue)
ShuffleInit ==
    /\ StudioInit(DefaultEnv)
    /\ req = NoRequest
    /\ tiers = <<>>
    /\ jobQueue \in Arrays
    /\ finalQueue = <<>>
    /\ zip = {}
    /\ i = 0
    /\ res = NoResponse
    /\ gpc = "shuffleArray"

\* shuffleArray(array) runs, Math.random giving the draws random, and
\* returns (into finalQueue)
Shuffle ==
    /\ gpc = "shuffleArray"
    /\ \E random \in RandomDraws(Len(jobQueue)) :
          finalQueue' = shuffleArray(jobQueue, random)
    /\ gpc' = "shuffled"
    /\ UNCHANGED <<req, tiers, jobQueue, zip, i, res, studio>>

\* shuffleArray as a function of its argument and of the draws
ShuffleSpec == ShuffleInit /\ [][Shuffle]_vars

\* the largest value the Royalty Fee field accepts: inputProps max
MaxRoyaltyFee == 10000

\* the royalty fees a configuration carries: the numbers from min to max of
\* the field that are a whole number of eighths, each given by its count of
\* eighths (such a number, and its product with 100, is exact in a double)
RoyaltyFees == 0..(8 * MaxRoyaltyFee)

\* Math.round(n / d) for n >= 0, d > 0: the nearest integer, a half upward
MathRound(n, d) == (2 * n + d) \div (2 * d)

\* generateMetadata: seller_fee_basis_points:
\* Math.round(collectionData.royaltyFee * 100)
seller_fee_basis_points(collectionData) ==
    MathRound(collectionData.royaltyFee * 100, 8)

\* generateMetadata about to be called for the first NFT of a request whose
\* collectionData carries a royalty fee
RoyaltyInit ==
    /\ StudioInit(DefaultEnv)
    /\ \E royaltyFee \in RoyaltyFees :
          req = NoRequest @@ [collectionData |-> [royaltyFee |-> royaltyFee]]
    /\ tiers = <<>>
    /\ jobQueue = <<>>
    /\ finalQueue = <<>>
    /\ zip = {}
    /\ i = 0
    /\ res = NoResponse
    /\ gpc = "generateMetadata"

\* generateMetadata runs and the document is filed in the json folder
GenerateMetadata ==
    /\ gpc = "generateMetadata"
    /\ zip' = file(zip, "json", <<paddedIndex(i), "json">>,
                   [seller_fee_basis_points |->
                        seller_fee_basis_points(req.collectionData)])
    /\ gpc' = "filed"
    /\ UNCHANGED <<req, tiers, jobQueue, finalQueue, i, res, studio>>

\* seller_fee_basis_points as a function of the royalty fee
RoyaltySpec == RoyaltyInit /\ [][GenerateMetadata]_vars

TypeOK ==
    /\ \A j \in Jobs :
          /\ jobs[j].status \in Statuses
          /\ jobs[j].image_path \in {NULL, imagePath}
          /\ jobs[j].metadata_path \in {NULL, metadataPath}
          /\ jobs[j].error_message \in {NULL, generateImageError}
          /\ jobs[j].retry_count \in 0..MaxRetry
    /\ isProcessing \in BOOLEAN
    /\ \A t \in Calls : job[t] \in Jobs \cup {0}

\* ================================================================ claims

\* a batch execution of call t is running: it has passed the isProcessing
\* test and has neither returned nor thrown
BatchRunning(t) == op[t] \in BatchOps /\ pc[t] \notin {"idle", "done"}

\* call t is inside processJob
InProcessJob(t) == pc[t] \in {"setGenerating", "generateImage", "setGenerated"}

\* the step is the entry of a new call, made through slot t
NewCall(t) == Free(t) /\ ~Free(t)'

\* C1: at no time are two batch executions (initial or continuation, of any
\* collection) running at once on the one JobService instance.
C1_OneBatchAtATime ==
    Cardinality({t \in Calls : BatchRunning(t)}) <= 1

\* C2: a job id never has two image generations in flight: no two calls are
\* inside processJob for the same job, and processJob is never entered for a
\* job whose status is generating.
C2_OneGenerationPerJob ==
    [][\A t \in Calls :
          (pc'[t] = "setGenerating" /\ pc[t] # "setGenerating") =>
              /\ \A u \in Calls \ {t} : ~(InProcessJob(u)' /\ job'[u] = job'[t])
              /\ jobs'[job'[t]].status # "generating"]_vars

\* the status changes of the job state machine
AllowedTransitions ==
    { <<"pending", "generating">>, <<"generating", "generated">>,
      <<"pending", "error">>, <<"generating", "error">>,
      <<"generated", "approved">>, <<"generated", "pending">>,
      <<"error", "pending">> }

\* C3: the stored status is always one of the five statuses and every change
\* of it is one of the seven transitions of the job state machine.
C3_OnlyAllowedTransitions ==
    [][\A j \in Jobs :
          /\ jobs'[j].status \in Statuses
          /\ jobs'[j].status # jobs[j].status =>
                <<jobs[j].status, jobs'[j].status>> \in AllowedTransitions]_vars

\* C4: whenever image generation fails for a job set to generating, in a
\* batch or in a regenerate, the handler goes on to record the failure: the
\* job is written to error with the failure message and its retry_count is
\* raised by exactly one; it is not left in generating.
C4_FailureRecorded ==
    [][\A t \in Calls :
          /\ (pc[t] = "generateImage" /\ pc'[t] \notin {"generateImage", "setGenerated"}) =>
                pc'[t] = "setError" /\ job'[t] = job[t]
          /\ (pc[t] = "setError" /\ pc'[t] # "setError") =>
                /\ jobs'[job[t]].status = "error"
                /\ jobs'[job[t]].error_message = generateImageError
                /\ pc'[t] = "incrementRetry"
          /\ (pc[t] = "incrementRetry" /\ pc'[t] # "incrementRetry") =>
                jobs'[job[t]].retry_count = jobs[job[t]].retry_count + 1]_vars

\* C5: approved is terminal: once a job is approved its status never changes
\* and its image_path and metadata_path are never cleared.
C5_ApprovedIsTerminal ==
    [][\A j \in Jobs :
          jobs[j].status = "approved" =>
              /\ jobs'[j].status = "approved"
              /\ jobs'[j].image_path = jobs[j].image_path
              /\ jobs'[j].metadata_path = jobs[j].metadata_path]_vars

\* the step is a regenerate request being accepted for job[t]': the status
\* test of a route passes, or regenerateJob called directly goes ahead
RegenerateAccepted(t) ==
    \/ NewCall(t) /\ op'[t] = "regenerateRoute" /\ pc'[t] = "regenerateFind"
    \/ NewCall(t) /\ op'[t] = "regenerateJob" /\ pc'[t] = "regenerateReset"
    \/ pc[t] = "regenerateCheck" /\ pc'[t] = "regenerateFind"

\* the step is a regenerate request being rejected
RegenerateRejected(t) ==
    \/ NewCall(t) /\ op'[t] \in {"regenerateRoute", "regenerateJob"} /\ pc'[t] = "done"
    \/ /\ pc[t] = "regenerateCheck"
       /\ pc'[t] \in {"regenerateCheck", "done"}
       /\ pendingJobs'[t] # pendingJobs[t]

\* C6: a regenerate request for a job in pending, generating or approved is
\* rejected and changes neither the job row nor its image file, through the
\* routes and through regenerateJob called directly: every accepted request
\* is for a job in generated or error, and a rejection changes nothing.
C6_RegenerateOnlyFromGeneratedOrError ==
    [][\A t \in Calls :
          /\ RegenerateAccepted(t) => jobs[job'[t]].status \in {"generated", "error"}
          /\ RegenerateRejected(t) => store' = store]_vars

\* the step in which a single regenerate call returns to its caller
RegenerateReturns(t) ==
    /\ op[t] \in {"regenerateRoute", "regenerateJob"}
    /\ pc[t] \in {"regenerateReset", "setGenerating", "generateImage", "setGenerated"}
    /\ pc'[t] = "done"

\* the row a regenerate is said to leave: pending, nothing produced, no error
ResetRow(row) ==
    /\ row.status = "pending"
    /\ row.image_path = NULL
    /\ row.metadata_path = NULL
    /\ row.error_message = NULL

\* C7 as stated: the result of a regenerate is a job in pending with
\* image_path, metadata_path and error_message null and its image file gone:
\* that is what a regenerate that returns successfully leaves.
C7_RegenerateLeavesPending ==
    [][\A t \in Calls :
          (RegenerateReturns(t) /\ result'[t] = "ok") =>
              ResetRow(jobs'[job[t]]) /\ ~imgFile'[job[t]]]_vars

\* C7 amended: regenerateJob first unlinks the image the row names, then
\* writes, in one update and whatever the status was, status pending with
\* image_path, metadata_path and error_message null (retry_count kept); this
\* is an intermediate state: the call goes on into processJob, and when it
\* returns successfully its last write has set the job to generated with a
\* new image_path.
C7_RegenerateResetsThenReprocesses ==
    [][\A t \in Calls :
          /\ (pc'[t] = "regenerateReset" /\ pc[t] # "regenerateReset") =>
                (jobs[job'[t]].image_path # NULL => ~imgFile'[job'[t]])
          /\ (pc[t] = "regenerateReset" /\ pc'[t] # "regenerateReset") =>
                /\ ResetRow(jobs'[job[t]])
                /\ jobs'[job[t]].retry_count = jobs[job[t]].retry_count
                /\ pc'[t] = "setGenerating"
          /\ (RegenerateReturns(t) /\ result'[t] = "ok") =>
                /\ jobs'[job[t]].status = "generated"
                /\ jobs'[job[t]].image_path = imagePath]_vars

\* C7 witness: two regenerates under way, one of a generated job whose image
\* has just been unlinked and whose row is about to be reset, one of a job
\* that had failed (retry_count 1) and has just been reset to the cleared
\* pending row
C7_Witness ==
    \E t, u \in Calls :
        /\ op[t] \in RegenerateOps /\ op[u] \in RegenerateOps
        /\ pc[t] = "regenerateReset"
        /\ jobs[job[t]].status = "generated"
        /\ jobs[job[t]].image_path = imagePath
        /\ ~imgFile[job[t]]
        /\ pc[u] = "setGenerating"
        /\ job[u] # job[t]
        /\ ResetRow(jobs[job[u]])
        /\ jobs[job[u]].retry_count = 1

\* the step is approveJob testing the status of the job it has fetched, in a
\* direct call or in the call made by the approve route
ApproveJobChecks(t) ==
    \/ NewCall(t) /\ op'[t] = "approveJob"
    \/ pc[t] = "approveFind" /\ pc'[t] # "approveFind"

\* C8: approveJob on a job that is not in generated fails with an error and
\* changes nothing stored: approveJob goes ahead only for a job in generated,
\* otherwise it throws, and its status test writes neither row nor file.
C8_ApproveNeedsGenerated ==
    [][\A t \in Calls :
          ApproveJobChecks(t) =>
              /\ store' = store
              /\ \/ /\ pc'[t] = "saveMetadata"
                    /\ jobs[job'[t]].status = "generated"
                 \/ /\ pc'[t] = "done"
                    /\ result'[t] = "not_generated"]_vars

\* C8 witness: approveJob, called directly while every job is approved or in
\* error, has thrown
C8_Witness ==
    \E t \in Calls :
        /\ op[t] = "approveJob"
        /\ pc[t] = "done"
        /\ result[t] = "not_generated"
        /\ \A j \in Jobs : jobs[j].status \in {"approved", "error"}

\* C9: a job becomes approved only from generated and only once its metadata
\* file is saved, metadata_path being written by the update that sets
\* approved; when metadata generation or saving fails the call returns the
\* error and the store is unchanged.
C9_ApprovedOnlyFromGenerated ==
    [][/\ \A j \in Jobs :
            (jobs'[j].status = "approved" /\ jobs[j].status # "approved") =>
                /\ jobs[j].status = "generated"
                /\ metaFile[j]
                /\ jobs'[j].metadata_path = metadataPath
       /\ \A t \in Calls :
            (pc[t] = "saveMetadata" /\ pc'[t] = "done") =>
                /\ result'[t] = "metadata_failed"
                /\ store' = store]_vars

\* C10: a batch start issued while another batch is running fails with
\* 'already in progress'; a batch start issued when no batch is running
\* (the earlier ones have returned or thrown) is accepted.
C10_SecondBatchRejected ==
    [][\A t \in Calls :
          (NewCall(t) /\ op'[t] \in BatchOps) =>
              IF \E u \in Calls \ {t} : BatchRunning(u)
              THEN pc'[t] = "done" /\ result'[t] = "already_in_progress"
              ELSE pc'[t] = "findPending"]_vars

\* the elements of a sequence
Range(s) == {s[k] : k \in DOMAIN s}

\* the step in which batch call t is done with the job it attempted, after
\* the job was written generated or after its failure was recorded
AttemptEnds(t) ==
    /\ op[t] \in BatchOps
    /\ pc[t] \in {"setGenerated", "incrementRetry"}
    /\ pc'[t] # pc[t]

C12_NoPendingIsNotAnError ==
    [][\A t \in Calls :
          (/\ pc[t] = "findPending"
           /\ pc'[t] # pc[t]
           /\ findByCollectionId(coll[t], "pending", batchSize(op[t])) = <<>>) =>
              /\ pc'[t] = "done"
              /\ result'[t] = "ok"
              /\ processedJobs'[t] = <<>>
              /\ store' = store]_vars

\* C13: a batch call returns every job it attempted, the failed ones as well
\* as the successful ones: each job is in the list the call returns once its
\* attempt has ended, whichever way it ended.
C13_ReturnsEveryAttemptedJob ==
    [][\A t \in Calls :
          AttemptEnds(t) => job[t] \in Range(processedJobs'[t])]_vars

\* the pending jobs of a collection
PendingOf(collectionId) ==
    {j \in Jobs : collection_id(j) = collectionId /\ jobs[j].status = "pending"}

\* the batch size the environment configures for entry point o, if it sets a
\* positive one, else the default: 3 for the initial batch, 100 for the
\* continuation
ConfiguredBatchSize(o) ==
    LET value == IF o = "processInitialBatch"
                 THEN env.INITIAL_BATCH_SIZE ELSE env.CONTINUE_BATCH_SIZE
    IN  IF value = "1" THEN 1
        ELSE IF o = "processInitialBatch" THEN 3 ELSE 100

C15_StatusHasItsPaths ==
    \A j \in Jobs :
        /\ jobs[j].status \in {"generated", "approved"} => jobs[j].image_path # NULL
        /\ jobs[j].status = "approved" => jobs[j].metadata_path # NULL

\* ------------------------------------------- createJobQueue (server.js)

\* the images tier needs
ImagesNeeded(tier) == ceil(tier.nftCount, tier.editionsPerImage)

\* the tiers given to createJobQueue that have fewer images than they need
ShortTiers == {k \in DOMAIN tiers : Len(tiers[k].images) < ImagesNeeded(tiers[k])}

RECURSIVE SumNftCount(_)
SumNftCount(rarityTiers) ==
    IF rarityTiers = <<>> THEN 0
    ELSE Head(rarityTiers).nftCount + SumNftCount(Tail(rarityTiers))

\* createJobQueue has been called on tiers and has returned: jobQueue is
\* what it returned
Expanded ==
    /\ gpc # "listening"
    /\ tiers # <<>>
    /\ ShortTiers = {}

\* the tier (from 1) and the image slot (from 1) a seed was made from
TierOf(seed) == seed.sourceImage.fieldname[2] + 1
SlotOf(seed) == seed.sourceImage.fieldname[4] + 1

\* C16: for a plan in which every tier has nftCount > 0, editionsPerImage >= 1
\* and enough images, and whose nftCounts sum to totalSupply, createJobQueue
\* returns exactly totalSupply seeds whose globalIndex values are pairwise
\* distinct and are exactly 0 .. totalSupply-1.
C16_GlobalIndexContiguous ==
    (/\ Expanded
     /\ \A k \in DOMAIN tiers : tiers[k].nftCount > 0 /\ tiers[k].editionsPerImage >= 1
     /\ SumNftCount(tiers) = req.totalSupply) =>
        /\ Len(jobQueue) = req.totalSupply
        /\ \A a, b \in DOMAIN jobQueue :
              a # b => jobQueue[a].globalIndex # jobQueue[b].globalIndex
        /\ {jobQueue[a].globalIndex : a \in DOMAIN jobQueue} = 0..(req.totalSupply - 1)

\* C16 witness: a plan of two tiers, 3 NFTs at 2 editions per image and 2
\* NFTs at 1, totalSupply 5, has been expanded and is being processed
C16_Witness ==
    /\ Expanded
    /\ gpc = "sharp"
    /\ Len(tiers) = 2
    /\ tiers[1].nftCount = 3 /\ tiers[1].editionsPerImage = 2
    /\ tiers[2].nftCount = 2 /\ tiers[2].editionsPerImage = 1
    /\ req.totalSupply = 5
    /\ Len(jobQueue) = 5

\* C17: the seeds made from one image carry editionNumber 1, 2, ..., k, each
\* within 1..editionsPerImage, and all carry editionTotal k; k is
\* editionsPerImage for every image used except the last, which gets the
\* remainder; the k of a tier sum to its nftCount.
C17_EditionsPerImage ==
    Expanded =>
        \A t \in DOMAIN tiers :
            LET tier == tiers[t]
                needed == ImagesNeeded(tier)
            IN  /\ \A m \in 1..Len(tier.images) :
                      LET seeds == SelectSeq(jobQueue,
                                       LAMBDA seed : seed.sourceImage = tier.images[m])
                          k == IF m < needed THEN tier.editionsPerImage
                               ELSE IF m = needed
                               THEN tier.nftCount - ((needed - 1) * tier.editionsPerImage)
                               ELSE 0
                      IN  /\ Len(seeds) = k
                          /\ m <= needed => k \in 1..tier.editionsPerImage
                          /\ \A e \in 1..Len(seeds) :
                                /\ seeds[e].editionNumber = e
                                /\ seeds[e].editionNumber \in 1..tier.editionsPerImage
                                /\ seeds[e].editionTotal = k
                /\ Len(SelectSeq(jobQueue, LAMBDA seed : TierOf(seed) = t)) = tier.nftCount

\* C17 witness: a tier of 3 NFTs at 2 editions per image has been expanded:
\* its first image carries editions 1/2 and 2/2, its second image 1/1
C17_Witness ==
    /\ Expanded
    /\ Len(tiers) = 1
    /\ tiers[1].nftCount = 3
    /\ tiers[1].editionsPerImage = 2
    /\ Len(jobQueue) = 3
    /\ jobQueue[2].editionNumber = 2 /\ jobQueue[2].editionTotal = 2
    /\ jobQueue[3].editionNumber = 1 /\ jobQueue[3].editionTotal = 1
    /\ SlotOf(jobQueue[3]) = 2

\* C18: seeds come in tier order, then image order within the tier, then
\* edition order within the image, and globalIndex follows that order; the
\* i-th image slot of a tier is the i-th image supplied for that tier.
C18_SeedOrder ==
    Expanded =>
        /\ \A a \in DOMAIN jobQueue :
              /\ jobQueue[a].globalIndex = a - 1
              /\ TierOf(jobQueue[a]) \in DOMAIN tiers
              /\ jobQueue[a].rarityTier = tiers[TierOf(jobQueue[a])].type
              /\ jobQueue[a].sourceImage = tiers[TierOf(jobQueue[a])].images[SlotOf(jobQueue[a])]
              /\ jobQueue[a].artId[2] = SlotOf(jobQueue[a])
        /\ \A a, b \in DOMAIN jobQueue :
              a < b =>
                 \/ TierOf(jobQueue[a]) < TierOf(jobQueue[b])
                 \/ /\ TierOf(jobQueue[a]) = TierOf(jobQueue[b])
                    /\ SlotOf(jobQueue[a]) < SlotOf(jobQueue[b])
                 \/ /\ jobQueue[a].sourceImage = jobQueue[b].sourceImage
                    /\ jobQueue[a].editionNumber < jobQueue[b].editionNumber

\* the images of the scenario: A, B of the first tier, C, D of the second
ImageA == [fieldname |-> <<"tier", 0, "file", 0>>]
ImageB == [fieldname |-> <<"tier", 0, "file", 1>>]
ImageC == [fieldname |-> <<"tier", 1, "file", 0>>]
ImageD == [fieldname |-> <<"tier", 1, "file", 1>>]

\* C18 witness: tiers [1/1: 2 NFTs, 1 edition, images A, B] and [common: 4
\* NFTs, 2 editions, images C, D] with totalSupply 6 have been expanded:
\* indices 0-1 from A, B, 2-3 from C, 4-5 from D
C18_Witness ==
    /\ gpc = "sharp"
    /\ req.totalSupply = 6
    /\ Len(tiers) = 2
    /\ tiers[1].type = "1/1"
    /\ tiers[1].nftCount = 2 /\ tiers[1].editionsPerImage = 1
    /\ tiers[1].images = <<ImageA, ImageB>>
    /\ tiers[2].type = "common"
    /\ tiers[2].nftCount = 4 /\ tiers[2].editionsPerImage = 2
    /\ tiers[2].images = <<ImageC, ImageD>>
    /\ [a \in DOMAIN jobQueue |-> jobQueue[a].sourceImage]
          = <<ImageA, ImageB, ImageC, ImageC, ImageD, ImageD>>
    /\ [a \in DOMAIN jobQueue |-> jobQueue[a].globalIndex] = <<0, 1, 2, 3, 4, 5>>

\* the first tier that has too few images
FirstShortTier == CHOOSE k \in ShortTiers : \A l \in ShortTiers : k <= l

\* C19: when a tier has fewer images than ceil(nftCount / editionsPerImage),
\* the expansion fails with an error that names the first such tier, the
\* number of images needed and the smaller number provided, whether or not
\* earlier tiers were valid; no seed is kept, nothing is processed and the
\* archive gets no entry.
C19_ShortTierFails ==
    (gpc # "listening" /\ ShortTiers # {}) =>
        /\ gpc = "sent"
        /\ res.status = 500
        /\ res.details.message = "Tier needs images"
        /\ res.details.tier = tiers[FirstShortTier].type
        /\ res.details.needs = ImagesNeeded(tiers[FirstShortTier])
        /\ res.details.provided = Len(tiers[FirstShortTier].images)
        /\ res.details.needs - res.details.provided >= 1
        /\ jobQueue = <<>>
        /\ finalQueue = <<>>
        /\ zip = {}
        /\ i = 0

\* C19 witness: the first tier (1/1) has its images, the second (common)
\* needs 2 images and has 1: the request has failed naming common, 2 needed,
\* 1 provided
C19_Witness ==
    /\ gpc = "sent"
    /\ Len(tiers) = 2
    /\ tiers[1].type = "1/1" /\ tiers[1].nftCount > 0
    /\ tiers[2].type = "common"
    /\ ShortTiers = {2}
    /\ res.status = 500
    /\ res.details.tier = "common"
    /\ res.details.needs = 2
    /\ res.details.provided = 1

\* C20: for a tier of type '1/1' the expander uses editionsPerImage = 1
\* whatever was supplied: in a plan whose nftCounts sum to totalSupply every
\* seed of such a tier carries editionNumber 1 and editionTotal 1 and no two
\* of them come from the same image, and the tier needs exactly nftCount
\* images.
C20_UniqueTierOneEdition ==
    (gpc # "listening" /\ SumNftCount(tiers) = req.totalSupply) =>
        /\ ShortTiers = {} =>
              /\ \A a \in DOMAIN jobQueue :
                    jobQueue[a].rarityTier = "1/1" =>
                        jobQueue[a].editionNumber = 1 /\ jobQueue[a].editionTotal = 1
              /\ \A a, b \in DOMAIN jobQueue :
                    (a # b /\ jobQueue[a].rarityTier = "1/1") =>
                        jobQueue[a].sourceImage # jobQueue[b].sourceImage
        /\ \A k \in DOMAIN tiers :
              (tiers[k].type = "1/1" /\ Len(tiers[k].images) < tiers[k].nftCount) =>
                  res.status = 500

\* ------------------------------------------------ the archive (server.js)

\* the handler has numbered and filed the first i seeds of finalQueue
Numbering == gpc \in {"sharp", "generateAsync", "sent"} /\ i > 0

\* the archive holds, under the number k, the image of seed and the metadata
\* made from seed, named with that number
FiledUnder(seed, k) ==
    /\ [folder |-> "images", name |-> <<paddedIndex(k), "png">>,
        data |-> seed.sourceImage] \in zip
    /\ [folder |-> "json", name |-> <<paddedIndex(k), "json">>,
        data |-> generateMetadata(seed, paddedIndex(k))] \in zip

\* C21: the number under which a job's image and metadata are filed in the
\* archive, which is also the number in its metadata name, is the globalIndex
\* the expander gave that job, with and without randomizeOrder; the seeds
\* numbered are the seeds of the expansion, globalIndex unchanged.
C21_GlobalIndexIsFinalNumber ==
    Numbering =>
        /\ \A k \in 0..(i - 1) :
              \E seed \in Range(jobQueue) : seed.globalIndex = k /\ FiledUnder(seed, k)
        /\ Range(finalQueue) = Range(jobQueue)

\* ------------------------------------------------ shuffleArray (server.js)

RECURSIVE Factorial(_)
Factorial(n) == IF n <= 1 THEN 1 ELSE n * Factorial(n - 1)

\* how often x occurs in the sequence s
Count(s, x) == Cardinality({k \in DOMAIN s : s[k] = x})

\* a holds the elements of b, each as often as b does
IsPermutationOf(a, b) ==
    /\ Len(a) = Len(b)
    /\ \A k \in DOMAIN b : Count(a, b[k]) = Count(b, b[k])

\* the elements of the array are pairwise different
Distinct(s) == \A a, b \in DOMAIN s : a # b => s[a] # s[b]

\* C22: shuffleArray swaps position k, from the last down to 1, with a
\* position drawn from 0..k; what it returns is a permutation of its input
\* (same elements, same multiplicities, same length); the sequences of draws
\* are as many as the permutations of n elements, and on an input of n
\* different elements no two of them give the same result, so every
\* permutation comes from exactly one sequence of draws.
C22_ShuffleIsFisherYates ==
    gpc = "shuffled" =>
        LET n == Len(jobQueue)
            draws == {random \in RandomDraws(n) : shuffleArray(jobQueue, random) = finalQueue}
        IN  /\ IsPermutationOf(finalQueue, jobQueue)
            /\ draws # {}
            /\ \A random \in RandomDraws(n) : \A k \in 1..(n - 1) : random[k] \in 0..k
            /\ Cardinality(RandomDraws(n)) = Factorial(n)
            /\ Distinct(jobQueue) =>
                  /\ Cardinality(draws) = 1
                  /\ Cardinality({shuffleArray(jobQueue, random) : random \in RandomDraws(n)})
                        = Factorial(n)

\* C22 witness: an array of three different elements has been shuffled into
\* the reverse order, which only the draws 0 (for position 2) and 1 (for
\* position 1) give
C22_Witness ==
    /\ gpc = "shuffled"
    /\ jobQueue = <<1, 2, 3>>
    /\ finalQueue = <<3, 2, 1>>
    /\ {random \in RandomDraws(3) : shuffleArray(jobQueue, random) = finalQueue}
          = {<<1, 0>>}

\* ---------------------------------------------- the numbering (server.js)

\* the width the names of a collection of totalSupply are to have: five
\* digits, or as many as its largest index needs
Width(totalSupply) ==
    IF Len(String(totalSupply - 1)) > 5 THEN Len(String(totalSupply - 1)) ELSE 5

\* C23: within one collection the number in the NFT name, in the image file
\* name and in the metadata file name is zero-padded to one width,
\* max(5, digits needed for totalSupply), at every index, and two different
\* indices never get the same padded name.
C23_OnePaddingWidth ==
    /\ \A e \in zip :
          /\ Len(e.name[1]) = Width(req.totalSupply)
          /\ e.folder = "json" => Len(e.data.name) = Width(req.totalSupply)
    /\ \A a, b \in DOMAIN finalQueue :
          a # b => paddedIndex(a - 1) # paddedIndex(b - 1)

\* ------------------------------------------- package assembly (server.js)

\* the entries of an archive of the direct-image flow by kind: images/,
\* json/, and whatever else it holds
ImageEntries(entries) == {e \in entries : e.folder = "images"}
MetadataEntries(entries) == {e \in entries : e.folder = "json"}
OtherEntries(entries) == entries \ (ImageEntries(entries) \cup MetadataEntries(entries))

\* the archive holds the image of seed and the metadata of seed under one number
HasJob(entries, seed) ==
    \E e \in ImageEntries(entries), m \in MetadataEntries(entries) :
        /\ e.name[1] = m.name[1]
        /\ e.data = seed.sourceImage
        /\ m.data = generateMetadata(seed, m.name[1])

\* the archive of N jobs holds N image entries and N metadata entries under
\* N numbers, every job under a number of its own
HoldsEveryJob(entries, queue) ==
    /\ Cardinality(ImageEntries(entries)) = Len(queue)
    /\ Cardinality(MetadataEntries(entries)) = Len(queue)
    /\ Cardinality({e.name[1] : e \in ImageEntries(entries) \cup MetadataEntries(entries)})
          = Len(queue)
    /\ \A k \in DOMAIN queue : HasJob(entries, queue[k])

\* C24: the archive built for N >= 1 eligible jobs whose artifacts are all
\* present (here: the processed jobs of the direct-image flow) holds exactly N
\* image entries and N metadata entries, the image and the metadata of a job
\* under the same number, no two jobs under the same number, and exactly one
\* collection-level manifest entry.
C24_ArchiveOfEveryJobAndManifest ==
    (gpc = "sent" /\ res.status = 200 /\ Len(finalQueue) >= 1) =>
        /\ HoldsEveryJob(res.body, finalQueue)
        /\ Cardinality(OtherEntries(res.body)) = 1

\* ------------------------------- package assembly (MetadataService), routes

\* createCollectionPackage has written the package of collection mreq.id and
\* has resolved; no row and no file has changed since
Assembled ==
    /\ mreq.route = "package"
    /\ mpc = "idle"
    /\ mres.status = 500
    /\ mres.details = "Collection.update is not a function"

\* the image artifact, the metadata artifact of job j can be found
ImageFound(j) == jobs[j].image_path # NULL /\ imgFile[j]
MetadataFound(j) == jobs[j].metadata_path # NULL /\ metaFile[j]

\* the approved jobs of the collection that lack an artifact
Skipped == {j \in Range(findApproved(mreq.id)) : ~ImageFound(j) \/ ~MetadataFound(j)}

\* the entries of the package made from the files of job j
EntriesOf(j) == {k \in DOMAIN package : package[k].job = j}

\* C25: a job whose image or whose metadata cannot be found is left out of
\* the package as a whole, the package is still built for all other jobs, and
\* the result of the assembly reports which jobs were skipped.
C25_MissingArtifactSkipsJob ==
    Assembled =>
        /\ \A j \in Skipped : EntriesOf(j) = {}
        /\ \A j \in Range(findApproved(mreq.id)) \ Skipped :
              {package[k].ext : k \in EntriesOf(j)} = {"png", "json"}
        /\ Skipped # {} => ("skipped" \in DOMAIN mres /\ mres.skipped = Skipped)

\* C26: the image file and the metadata file of a job whose row has been
\* removed from the jobs table, by deleting the job or its collection, are
\* removed as well, and no row is left that names a deleted collection.
C26_DeletionRemovesArtifacts ==
    /\ \A j \in Jobs \ rows : ~imgFile[j] /\ ~metaFile[j]
    /\ \A j \in rows : CollectionFound(collection_id(j))

\* C27: every row the create-collection route stores has total_supply > 0
\* and drop_supply <= total_supply, and a request it rejects stores nothing.
C27_StoredCollectionIsValid ==
    [][/\ \A c \in DOMAIN collections' \ DOMAIN collections :
             /\ collections'[c].total_supply > 0
             /\ collections'[c].drop_supply <= collections'[c].total_supply
       /\ (mreq'.route = "createCollection" /\ mpc = "idle" /\ mpc' = "idle")
             => collections' = collections]_vars

\* the step in which batch start t is rejected by the isProcessing test
Rejected(t) ==
    /\ NewCall(t)
    /\ op'[t] \in BatchOps
    /\ result'[t] = "already_in_progress"

\* C28: a batch start that is rejected because a batch is already running
\* changes no state: isProcessing is still true after the rejection, and the
\* rejected call modifies no job and no file.
C28_RejectedStartChangesNothing ==
    [][\A t \in Calls :
          Rejected(t) => (isProcessing /\ isProcessing' /\ store' = store)]_vars

\* the step in which accepted batch call t finishes, by returning or by throwing
BatchFinishes(t) ==
    /\ op[t] \in BatchOps
    /\ pc[t] \notin {"idle", "done"}
    /\ pc'[t] = "done"

\* C29: when an accepted batch finishes, by returning or by throwing,
\* isProcessing is false and every job the batch attempted (the one it was
\* at and the ones it returns) is in generated or in error, none is left in
\* pending or in generating.
C29_FinishedBatchLeavesNoJobHalfDone ==
    [][\A t \in Calls :
          BatchFinishes(t) =>
              /\ ~isProcessing'
              /\ \A j \in ({job[t]} \ {0}) \cup Range(processedJobs'[t]) :
                    jobs'[j].status \in {"generated", "error"}]_vars

\* every accepted batch eventually finishes
BatchEventuallyFinishes ==
    \A t \in Calls : BatchRunning(t) ~> (pc[t] = "done")

\* C30: for every collection configuration whose royalty value is within
\* the accepted range 0..10000 basis points, the seller_fee_basis_points
\* written into each generated metadata document is within 0..10000.
C30_SellerFeeWithinRange ==
    gpc = "filed" =>
        \A e \in zip : e.data.seller_fee_basis_points \in 0..MaxRoyaltyFee
====
